---- MODULE Spec2Model ----
(***************************************************************************)
(* Othello rules engine and turn controller (src/othello.py).              *)
(*                                                                         *)
(* The board is the 8x8 list of lists of play_game; a cell is None, BLACK  *)
(* or WHITE.  A coordinate is the pair <<row, col>> of parse_coordinate,   *)
(* 0-based as in the source (the tuple itself is indexed 1 and 2).         *)
(* One loop iteration of play_game is split at its only blocking point,    *)
(* next(input): the part before it (pc = "top") and the part after it      *)
(* (pc = "prompt").                                                        *)
(***************************************************************************)
EXTENDS Integers, Sequences, FiniteSets, TLC

VARIABLES
    board,      \* play_game: board
    turn,       \* play_game: turn
    skip,       \* play_game: skip
    pc,         \* position in play_game: "top", "prompt", "over", "exit", "raised"
    input,      \* number of lines the input iterator still holds
    out,        \* the result messages printed so far (line 274), in order
    applied,    \* history: number of moves applied (lines 298-299 executed)
    ev,         \* history: the step of play_game taken last
    skip0,      \* history: the value of skip when the current iteration began
    last        \* history: the move applied last, its colour, the board before it

vars == <<board, turn, skip, pc, input, out, applied, ev, skip0, last>>

----------------------------------------------------------------------------
(* Bounds of the model *)

\* the longest input stream considered
MaxLines == 10

\* the longest string on which parse_coordinate is evaluated
MaxStrLen == 3

----------------------------------------------------------------------------
(* Constants of the program *)

SIZE == 8

BLACK == "B"
WHITE == "W"
None == "None"

Color == {BLACK, WHITE}
Cell == {None, BLACK, WHITE}

Idx == 0 .. (SIZE - 1)
Coords == Idx \X Idx

\* the colour switch written out at lines 188, 270 and 302
Opposite(color) == IF color = BLACK THEN WHITE ELSE BLACK

\* Python list indexing: an index in -SIZE..SIZE-1 is accepted and a negative
\* one counts from the end; any other index raises IndexError
PyInRange(i) == (0 - SIZE) <= i /\ i < SIZE
PyIdx(i) == IF i < 0 THEN i + SIZE ELSE i

EmptyBoard == [r \in Idx |-> [c \in Idx |-> None]]

\* variant of InitialBoard: the four centre discs with the colours exchanged
InitialBoardExchanged ==
    [EmptyBoard EXCEPT ![3][3] = WHITE, ![3][4] = BLACK,
                       ![4][3] = BLACK, ![4][4] = WHITE]

InitialBoard ==
    [EmptyBoard EXCEPT ![3][3] = BLACK, ![3][4] = WHITE,
                       ![4][3] = WHITE, ![4][4] = BLACK]

----------------------------------------------------------------------------
(* parse_coordinate: a line is a sequence of one-character strings *)

LowerLetters == <<"a", "b", "c", "d", "e", "f", "g", "h", "i">>
UpperLetters == <<"A", "B", "C", "D", "E", "F", "G", "H", "I">>
Digits == <<"0", "1", "2", "3", "4", "5", "6", "7", "8", "9">>
Whitespace == {" ", "\n"}

InSeq(s, ch) == \E i \in 1 .. Len(s) : s[i] = ch
IndexOf(s, ch) == CHOOSE i \in 1 .. Len(s) : s[i] = ch

\* ord() on the characters of the model's alphabet
Ord(ch) ==
    IF InSeq(LowerLetters, ch) THEN 96 + IndexOf(LowerLetters, ch)
    ELSE IF InSeq(UpperLetters, ch) THEN 64 + IndexOf(UpperLetters, ch)
    ELSE IF InSeq(Digits, ch) THEN 47 + IndexOf(Digits, ch)
    ELSE IF ch = " " THEN 32
    ELSE 10

\* str.lower() on one character
LowerChar(ch) ==
    IF InSeq(UpperLetters, ch) THEN LowerLetters[IndexOf(UpperLetters, ch)] ELSE ch

Lower(s) == [i \in 1 .. Len(s) |-> LowerChar(s[i])]

\* str.rstrip(): drop the trailing whitespace
RECURSIVE Rstrip(_)
Rstrip(s) ==
    IF Len(s) > 0 /\ s[Len(s)] \in Whitespace
    THEN Rstrip(SubSeq(s, 1, Len(s) - 1))
    ELSE s

ParseError(msg) == [ok |-> FALSE, error |-> msg, move |-> <<0, 0>>]

\* variant of parse_coordinate: str.lower() is left out
parse_coordinate_as_typed(str) ==
    IF Len(str) # 2 THEN ParseError("Input must be length 2")
    ELSE LET row == Ord(str[2]) - Ord("1")
             col == Ord(str[1]) - Ord("a")
         IN  IF ~(0 <= row /\ row < SIZE) THEN ParseError("Row out of bounds")
             ELSE IF ~(0 <= col /\ col < SIZE) THEN ParseError("Col out of bounds")
             ELSE [ok |-> TRUE, error |-> "", move |-> <<row, col>>]

parse_coordinate(str) ==
    IF Len(str) # 2 THEN ParseError("Input must be length 2")
    ELSE LET s == Lower(str)
             row == Ord(s[2]) - Ord("1")
             col == Ord(s[1]) - Ord("a")
         IN  IF ~(0 <= row /\ row < SIZE) THEN ParseError("Row out of bounds")
             ELSE IF ~(0 <= col /\ col < SIZE) THEN ParseError("Col out of bounds")
             ELSE [ok |-> TRUE, error |-> "", move |-> <<row, col>>]

----------------------------------------------------------------------------
(* Rules engine *)

CountOf(b, color) == Cardinality({p \in Coords : b[p[1]][p[2]] = color})

\* variant of count_tokens_and_determine_winner: >= in the first comparison
count_tokens_black_on_tie(b) ==
    LET black_count == CountOf(b, BLACK)
        white_count == CountOf(b, WHITE)
    IN  IF black_count >= white_count THEN "Black wins!"
        ELSE IF white_count > black_count THEN "White wins!"
        ELSE "It's a tie!"

count_tokens_and_determine_winner(b) ==
    LET black_count == CountOf(b, BLACK)
        white_count == CountOf(b, WHITE)
    IN  IF black_count > white_count THEN "Black wins!"
        ELSE IF white_count > black_count THEN "White wins!"
        ELSE "It's a tie!"

is_board_full(b) == \A p \in Coords : b[p[1]][p[2]] # None

\* the list adjacents of find_adjacent, in the order of the source
Adjacents(move) ==
    << <<move[1] + 1, move[2]>>,     <<move[1] - 1, move[2]>>,
       <<move[1], move[2] + 1>>,     <<move[1], move[2] - 1>>,
       <<move[1] + 1, move[2] + 1>>, <<move[1] + 1, move[2] - 1>>,
       <<move[1] - 1, move[2] + 1>>, <<move[1] - 1, move[2] - 1>> >>

\* board[adj_row][adj_col] is read with Python indexing: -1 reads the last
\* row or column, SIZE raises IndexError and the neighbour is skipped
find_adjacent(b, move, color) ==
    LET opposite_color == IF color = WHITE THEN BLACK ELSE WHITE
        adjacents == Adjacents(move)
    IN  \E i \in 1 .. Len(adjacents) :
            /\ PyInRange(adjacents[i][1])
            /\ PyInRange(adjacents[i][2])
            /\ b[PyIdx(adjacents[i][1])][PyIdx(adjacents[i][2])] = opposite_color

\* variant of is_flippable_line: a disc of the mover ends the walk with TRUE
\* whether or not an opponent disc was passed
RECURSIVE is_flippable_line_any(_, _, _, _, _)
is_flippable_line_any(b, move, color, direction, found_opponent) ==
    LET row == move[1] + direction[1]
        col == move[2] + direction[2]
    IN  IF ~(0 <= row /\ row < SIZE /\ 0 <= col /\ col < SIZE) THEN FALSE
        ELSE IF b[row][col] = None THEN FALSE
        ELSE IF b[row][col] = color THEN TRUE
        ELSE is_flippable_line_any(b, <<row, col>>, color, direction, TRUE)

\* variant of is_flippable_line: the edge of the board ends the walk like a
\* disc of the mover
RECURSIVE is_flippable_line_to_edge(_, _, _, _, _)
is_flippable_line_to_edge(b, move, color, direction, found_opponent) ==
    LET row == move[1] + direction[1]
        col == move[2] + direction[2]
    IN  IF ~(0 <= row /\ row < SIZE /\ 0 <= col /\ col < SIZE) THEN found_opponent
        ELSE IF b[row][col] = None THEN FALSE
        ELSE IF b[row][col] = color THEN found_opponent
        ELSE is_flippable_line_to_edge(b, <<row, col>>, color, direction, TRUE)

RECURSIVE is_flippable_line(_, _, _, _, _)
is_flippable_line(b, move, color, direction, found_opponent) ==
    LET row == move[1] + direction[1]
        col == move[2] + direction[2]
    IN  IF ~(0 <= row /\ row < SIZE /\ 0 <= col /\ col < SIZE) THEN FALSE
        ELSE IF b[row][col] = None THEN FALSE
        ELSE IF b[row][col] = color THEN found_opponent
        ELSE is_flippable_line(b, <<row, col>>, color, direction, TRUE)

directions ==
    << <<1, 0>>, <<-1, 0>>, <<0, 1>>, <<0, -1>>,
       <<1, 1>>, <<1, -1>>, <<-1, 1>>, <<-1, -1>> >>

\* variant of valid_move: the cell of the move is not required to be empty
valid_move_on_any_cell(b, color, move) ==
    IF ~(0 <= move[1] /\ move[1] < SIZE /\ 0 <= move[2] /\ move[2] < SIZE) THEN FALSE
    ELSE IF ~find_adjacent(b, move, color) THEN FALSE
    ELSE \E i \in 1 .. Len(directions) :
            is_flippable_line(b, move, color, directions[i], FALSE)

valid_move(b, color, move) ==
    IF ~(0 <= move[1] /\ move[1] < SIZE /\ 0 <= move[2] /\ move[2] < SIZE) THEN FALSE
    ELSE IF b[move[1]][move[2]] # None THEN FALSE
    ELSE IF ~find_adjacent(b, move, color) THEN FALSE
    ELSE \E i \in 1 .. Len(directions) :
            is_flippable_line(b, move, color, directions[i], FALSE)

no_valid_moves(b, color) ==
    ~ \E row \in 0 .. (SIZE - 1), col \in 0 .. (SIZE - 1) :
          valid_move(b, color, <<row, col>>)

\* the while loop of flip_line, entered at (row, col); raised tells that a
\* read of board[row][col] raised IndexError
RECURSIVE flip_loop(_, _, _, _, _)
flip_loop(b, row, col, color, direction) ==
    IF ~(PyInRange(row) /\ PyInRange(col)) THEN [board |-> b, raised |-> TRUE]
    ELSE IF b[PyIdx(row)][PyIdx(col)] = color THEN [board |-> b, raised |-> FALSE]
    ELSE flip_loop([b EXCEPT ![PyIdx(row)][PyIdx(col)] = color],
                   row + direction[1], col + direction[2], color, direction)

\* variant of flip_line: the body of the while loop runs once
flip_line_once(b, move, color, direction) ==
    [board |-> [b EXCEPT ![move[1] + direction[1]][move[2] + direction[2]] = color],
     raised |-> FALSE]

flip_line(b, move, color, direction) ==
    flip_loop(b, move[1] + direction[1], move[2] + direction[2], color, direction)

\* the indexes (row, col) at which the while loop of flip_line reads the
\* board, in order, from (row, col) on; the last is the read that ends the
\* loop (a cell of color, or an index that raises IndexError)
RECURSIVE flip_reads(_, _, _, _, _)
flip_reads(b, row, col, color, direction) ==
    IF ~(PyInRange(row) /\ PyInRange(col)) THEN << <<row, col>> >>
    ELSE IF b[PyIdx(row)][PyIdx(col)] = color THEN << <<row, col>> >>
    ELSE << <<row, col>> >> \o
         flip_reads([b EXCEPT ![PyIdx(row)][PyIdx(col)] = color],
                    row + direction[1], col + direction[2], color, direction)

\* variant of do_flip_from: the loop ends after the first line it flips
RECURSIVE do_flip_first(_, _, _, _, _)
do_flip_first(b, color, move, dirs, i) ==
    IF i > Len(dirs) THEN [board |-> b, raised |-> FALSE]
    ELSE IF is_flippable_line(b, move, color, dirs[i], FALSE)
         THEN flip_line(b, move, color, dirs[i])
         ELSE do_flip_first(b, color, move, dirs, i + 1)

\* the for loop of do_flip over the list dirs, from its i-th element on
RECURSIVE do_flip_from(_, _, _, _, _)
do_flip_from(b, color, move, dirs, i) ==
    IF i > Len(dirs) THEN [board |-> b, raised |-> FALSE]
    ELSE IF is_flippable_line(b, move, color, dirs[i], FALSE)
         THEN LET r == flip_line(b, move, color, dirs[i])
              IN  IF r.raised THEN r
                  ELSE do_flip_from(r.board, color, move, dirs, i + 1)
         ELSE do_flip_from(b, color, move, dirs, i + 1)

do_flip(b, color, move) == do_flip_from(b, color, move, directions, 1)

\* the walks of flip_line that do_flip makes, in order: for each, the board
\* it starts on and the indexes it reads
RECURSIVE do_flip_walks(_, _, _, _, _)
do_flip_walks(b, color, move, dirs, i) ==
    IF i > Len(dirs) THEN <<>>
    ELSE IF is_flippable_line(b, move, color, dirs[i], FALSE)
         THEN LET r == flip_line(b, move, color, dirs[i])
                  w == [before |-> b,
                        reads |-> flip_reads(b, move[1] + dirs[i][1],
                                             move[2] + dirs[i][2], color, dirs[i])]
              IN  IF r.raised THEN <<w>>
                  ELSE <<w>> \o do_flip_walks(r.board, color, move, dirs, i + 1)
         ELSE do_flip_walks(b, color, move, dirs, i + 1)

\* lines 298-299 with the list of directions as a parameter
PlaceAndFlipIn(b, color, move, dirs) ==
    do_flip_from([b EXCEPT ![move[1]][move[2]] = color], color, move, dirs, 1)

\* variant of PlaceAndFlip: the disc is not placed
FlipWithoutPlacing(b, color, move) == do_flip(b, color, move)

\* variant of PlaceAndFlip: the turn is switched before the disc is placed
PlaceAndFlipAfterSwitch(b, color, move) ==
    do_flip([b EXCEPT ![move[1]][move[2]] = Opposite(color)], Opposite(color), move)

\* lines 298-299 of play_game: place the disc, then flip
PlaceAndFlip(b, color, move) ==
    do_flip([b EXCEPT ![move[1]][move[2]] = color], color, move)

----------------------------------------------------------------------------
(* The input stream: the lines next(input) may return *)

Lines ==
    { <<"e", "3">>, <<"f", "3">>, <<"d", "6">>, <<"e", "2">>, <<"e", "1">>,
      <<"d", "1">>, <<"g", "2">>, <<"f", "1">>, <<"h", "3">>, <<"g", "4">>,
      <<"c", "4">>, <<"b", "3">>, <<"f", "4">>, <<"d", "3">>, <<"c", "2">>,
      <<"E", "3", "\n">>, <<"d", "4">>,
      <<"g", "6">>, <<"h", "8">>, <<"H", "8">>,
      <<"i", "1">>, <<"a", "9">>, <<"a">>, <<"a", "b", "c">>, <<>> }

----------------------------------------------------------------------------
(* play_game *)

\* the value of last before any move is applied
NoMove == [move |-> <<-1, -1>>, color |-> BLACK, before |-> InitialBoard]

Init ==
    /\ board = InitialBoard
    /\ turn = BLACK
    /\ skip = 0
    /\ pc = "top"
    /\ input \in 0 .. MaxLines
    /\ out = <<>>
    /\ applied = 0
    /\ ev = "start"
    /\ skip0 = 0
    /\ last = NoMove

\* variant of SkipTurn: a line of the input is read before the turn is skipped
SkipTurnReadingLine ==
    /\ pc = "top"
    /\ ev' = "skip"
    /\ no_valid_moves(board, turn)
    /\ input > 0
    /\ input' = input - 1
    /\ turn' = Opposite(turn)
    /\ skip0' = skip
    /\ skip' = skip + 1
    /\ IF skip + 1 >= 2
       THEN /\ out' = Append(out, count_tokens_and_determine_winner(board))
            /\ pc' = "over"
       ELSE /\ out' = out
            /\ pc' = "top"
    /\ UNCHANGED <<board, applied, last>>

\* lines 268-276: the player to move has no valid move
\* variant of SkipTurn: the test after the increment is skip >= 1
SkipTurnEndingAtOnce ==
    /\ pc = "top"
    /\ ev' = "skip"
    /\ no_valid_moves(board, turn)
    /\ turn' = Opposite(turn)
    /\ skip0' = skip
    /\ skip' = skip + 1
    /\ out' = Append(out, count_tokens_and_determine_winner(board))
    /\ pc' = "over"
    /\ UNCHANGED <<board, input, applied, last>>

\* variant of SkipTurn: the skip is not counted
SkipTurnNotCounting ==
    /\ pc = "top"
    /\ ev' = "skip"
    /\ no_valid_moves(board, turn)
    /\ turn' = Opposite(turn)
    /\ skip0' = skip
    /\ UNCHANGED <<board, skip, pc, input, out, applied, last>>

SkipTurn ==
    /\ pc = "top"
    /\ ev' = "skip"
    /\ no_valid_moves(board, turn)
    /\ turn' = Opposite(turn)
    /\ skip0' = skip
    /\ skip' = skip + 1
    /\ IF skip + 1 >= 2
       THEN /\ out' = Append(out, count_tokens_and_determine_winner(board))
            /\ pc' = "over"
       ELSE /\ out' = out
            /\ pc' = "top"
    /\ UNCHANGED <<board, input, applied, last>>

\* variant of Prompt: skip is not reset
PromptKeepingSkip ==
    /\ pc = "top"
    /\ ev' = "prompt"
    /\ ~no_valid_moves(board, turn)
    /\ skip0' = skip
    /\ pc' = "prompt"
    /\ UNCHANGED <<board, turn, skip, input, out, applied, last>>

\* lines 268, 277-278: the player to move is prompted
Prompt ==
    /\ pc = "top"
    /\ ev' = "prompt"
    /\ ~no_valid_moves(board, turn)
    /\ skip0' = skip
    /\ skip' = 0
    /\ pc' = "prompt"
    /\ UNCHANGED <<board, turn, input, out, applied, last>>

\* line 279: next(input) on an exhausted iterator raises StopIteration, which
\* no except clause of play_game or main names
InputExhausted ==
    /\ pc = "prompt"
    /\ ev' = "exhausted"
    /\ input = 0
    /\ pc' = "raised"
    /\ UNCHANGED <<board, turn, skip, input, out, applied, last, skip0>>

\* lines 288-290: KeyboardInterrupt while waiting for a line
Interrupted ==
    /\ pc = "prompt"
    /\ ev' = "interrupted"
    /\ pc' = "exit"
    /\ UNCHANGED <<board, turn, skip, input, out, applied, last, skip0>>

\* lines 279-284: the line does not parse
RejectParse ==
    /\ pc = "prompt"
    /\ ev' = "reject_parse"
    /\ input > 0
    /\ \E str \in Lines :
          /\ ~parse_coordinate(Rstrip(str)).ok
          /\ input' = input - 1
          /\ pc' = "top"
    /\ UNCHANGED <<board, turn, skip, out, applied, last, skip0>>

\* variant of RejectInvalid: the disc is placed before the move is validated
RejectInvalidAfterPlacing ==
    /\ pc = "prompt"
    /\ ev' = "reject_invalid"
    /\ input > 0
    /\ \E str \in Lines :
          LET p == parse_coordinate(Rstrip(str))
          IN  /\ p.ok
              /\ ~valid_move(board, turn, p.move)
              /\ board' = [board EXCEPT ![p.move[1]][p.move[2]] = turn]
              /\ input' = input - 1
              /\ pc' = "top"
    /\ UNCHANGED <<turn, skip, out, applied, last, skip0>>

\* lines 279-280, 292-296: the line parses and valid_move refuses the move
RejectInvalid ==
    /\ pc = "prompt"
    /\ ev' = "reject_invalid"
    /\ input > 0
    /\ \E str \in Lines :
          LET p == parse_coordinate(Rstrip(str))
          IN  /\ p.ok
              /\ ~valid_move(board, turn, p.move)
              /\ input' = input - 1
              /\ pc' = "top"
    /\ UNCHANGED <<board, turn, skip, out, applied, last, skip0>>

\* lines 279-280, 292-304: the move is applied
ApplyMove ==
    /\ pc = "prompt"
    /\ ev' = "apply"
    /\ input > 0
    /\ \E str \in Lines :
          LET p == parse_coordinate(Rstrip(str))
              r == PlaceAndFlip(board, turn, p.move)
          IN  /\ p.ok
              /\ valid_move(board, turn, p.move)
              /\ input' = input - 1
              /\ board' = r.board
              /\ applied' = applied + 1
              /\ last' = [move |-> p.move, color |-> turn, before |-> board]
              /\ IF r.raised
                 THEN pc' = "raised" /\ turn' = turn
                 ELSE pc' = "top" /\ turn' = Opposite(turn)
    /\ UNCHANGED <<skip, out, skip0>>

Next ==
    \/ SkipTurn
    \/ Prompt
    \/ InputExhausted
    \/ Interrupted
    \/ RejectParse
    \/ RejectInvalid
    \/ ApplyMove

Spec == Init /\ [][Next]_vars

----------------------------------------------------------------------------
(* The rules engine on boards of any content: the same play_game, started  *)
(* on a board whose cells in Region hold any value                         *)

\* the block b1..d3 without c3 and d2: it holds a row, a column and both
\* diagonals of three cells, so a line in each of the 8 directions; and c8,
\* the cell that row index -1 of a neighbour of b1, c1 and d1 reads
Region ==
    { <<0, 1>>, <<0, 2>>, <<0, 3>>, <<1, 1>>, <<1, 2>>, <<2, 1>>, <<2, 3>>, <<7, 2>> }

RegionBoards ==
    { [r \in Idx |-> [c \in Idx |-> IF <<r, c>> \in Region THEN f[<<r, c>>] ELSE None]] :
        f \in [Region -> Cell] }

InitBoards ==
    /\ board \in RegionBoards
    /\ turn = BLACK
    /\ skip = 0
    /\ pc = "top"
    /\ input = 1
    /\ out = <<>>
    /\ applied = 0
    /\ ev = "start"
    /\ skip0 = 0
    /\ last = NoMove

SpecBoards == InitBoards /\ [][Next]_vars

----------------------------------------------------------------------------
(* play_game on given positions: the board of the worked example of the    *)
(* module docstring, and two boards that play_game reaches, each with four *)
(* cells left to fill                                                      *)

\* a board from its 8 rows, row 1 of the display first
BoardOf(rows) == [r \in Idx |-> [c \in Idx |-> rows[r + 1][c + 1]]]

\* the left board of the worked example (black plays g6 next)
ExampleBoard ==
    LET B == BLACK
        W == WHITE
        o == None
    IN  BoardOf(<<
        <<o, o, o, o, o, o, o, o>>,
        <<o, o, o, o, o, o, o, o>>,
        <<o, o, o, W, B, W, o, o>>,
        <<o, o, W, B, B, W, B, o>>,
        <<o, W, B, W, B, W, o, o>>,
        <<o, B, W, W, W, W, o, o>>,
        <<o, o, o, o, o, o, o, o>>,
        <<o, o, o, o, o, o, o, o>>
        >>)

\* the board of play_game after the 56 lines
\*   c5 c6 c7 b7 a7 f5 f6 f7 g7 a8 f8 d7 e7 a6 g5 h7 h6 h4 c8
\*   b5 a5 a4 h5 c3 b2 e6 g8 a1 e8 d8 h3 b8 h8 b6 g6 g4 g3 d6
\*   b4 b3 a3 a2 b1 c1 d2 c2 f4 h2 h1 e2 f2 d3 f3 g2 g1 c4
\* (no turn is skipped on the way: black is to move; d1, e1, f1, e3 are empty)
EndgameA ==
    LET B == BLACK
        W == WHITE
        o == None
    IN  BoardOf(<<
        <<W, W, W, o, o, o, B, B>>,
        <<W, W, W, W, W, W, B, B>>,
        <<W, W, W, W, o, W, B, B>>,
        <<W, W, W, W, W, B, B, B>>,
        <<W, W, W, W, W, B, B, B>>,
        <<W, W, W, W, W, B, B, B>>,
        <<W, W, W, W, B, B, B, B>>,
        <<W, W, W, W, B, B, B, B>>
        >>)

\* the board of play_game after the 56 lines
\*   c5 c6 c7 b5 b6 e6 a5 c3 f5 a7 a6 c8 d8 f6 f7 g7 d7 f8 a8
\*   g5 g8 e7 b8 b7 h7 e8 h4 a4 b2 h6 a3 h5 b4 a1 d2 d6 c1 h8
\*   g6 h3 d3 e3 f2 d1 f4 g1 c2 a2 b1 b3 f3 e2 g4 g3 h2 h1
\* (no turn is skipped on the way: black is to move; e1, f1, g2, c4 are empty)
EndgameB ==
    LET B == BLACK
        W == WHITE
        o == None
    IN  BoardOf(<<
        <<W, B, B, W, o, o, W, W>>,
        <<W, W, W, W, W, W, o, W>>,
        <<B, B, B, B, W, W, B, W>>,
        <<B, B, o, W, W, B, W, W>>,
        <<B, B, B, W, B, B, W, W>>,
        <<B, B, B, B, W, B, W, W>>,
        <<B, B, B, W, W, B, W, W>>,
        <<B, B, B, B, W, W, W, W>>
        >>)

Positions == {ExampleBoard, EndgameA, EndgameB}

\* the loop of play_game entered on one of the positions, black to move;
\* applied is the number of moves that led to the board
InitPositions ==
    /\ board \in Positions
    /\ turn = BLACK
    /\ skip = 0
    /\ pc = "top"
    /\ input \in 0 .. MaxLines
    /\ out = <<>>
    /\ applied = CountOf(board, BLACK) + CountOf(board, WHITE) - 4
    /\ ev = "start"
    /\ skip0 = 0
    /\ last = NoMove

SpecPositions == InitPositions /\ [][Next]_vars

----------------------------------------------------------------------------
(* play_game on an input that never ends: next(input) waits at the prompt  *)
(* until the stream holds a line, and never finds the stream exhausted.    *)
(* The boards are those of the two games, whose empty cells all have their *)
(* coordinate among Lines, so that every valid move can be typed.          *)

LineArrives ==
    /\ pc = "prompt"
    /\ input = 0
    /\ input' = 1
    /\ UNCHANGED <<board, turn, skip, pc, out, applied, ev, skip0, last>>

InitEndgames ==
    /\ board \in {EndgameA, EndgameB}
    /\ turn = BLACK
    /\ skip = 0
    /\ pc = "top"
    /\ input \in {0, 1}
    /\ out = <<>>
    /\ applied = CountOf(board, BLACK) + CountOf(board, WHITE) - 4
    /\ ev = "start"
    /\ skip0 = 0
    /\ last = NoMove

NextUnending ==
    \/ SkipTurn
    \/ Prompt
    \/ LineArrives
    \/ Interrupted
    \/ RejectParse
    \/ RejectInvalid
    \/ ApplyMove

\* the loop keeps running (it is one thread that never waits but at
\* next(input)) and the stream keeps delivering lines
SpecUnending ==
    /\ InitEndgames
    /\ [][NextUnending]_vars
    /\ WF_vars(SkipTurn)
    /\ WF_vars(Prompt)
    /\ WF_vars(LineArrives)

----------------------------------------------------------------------------
(* The rule of the game, stated without the code's walk *)

At(b, p) == b[p[1]][p[2]]
OnBoard(p) == p[1] \in Idx /\ p[2] \in Idx
Ahead(p, d, k) == <<p[1] + k * d[1], p[2] + k * d[2]>>
Dirs8 == { d \in (-1 .. 1) \X (-1 .. 1) : d # <<0, 0>> }

\* from coord in direction d: n opponent discs, then a disc of colour
Bracketed(b, colour, coord, d, n) ==
    /\ OnBoard(Ahead(coord, d, n + 1))
    /\ At(b, Ahead(coord, d, n + 1)) = colour
    /\ \A k \in 1 .. n : At(b, Ahead(coord, d, k)) = Opposite(colour)

FlippableDir(b, colour, coord, d) ==
    /\ OnBoard(Ahead(coord, d, 1))
    /\ At(b, Ahead(coord, d, 1)) = Opposite(colour)
    /\ \E n \in 1 .. (SIZE - 2) : Bracketed(b, colour, coord, d, n)

LegalByRule(b, colour, coord) ==
    /\ OnBoard(coord)
    /\ At(b, coord) = None
    /\ \E d \in Dirs8 : FlippableDir(b, colour, coord, d)

\* the board of this state is new: play_game has just built it or just
\* applied a move
BoardIsNew == ev \in {"start", "apply"}

\* C1: valid_move(board, colour, coord) is true iff coord is on the board,
\* its cell is empty and some direction holds one or more opponent discs
\* followed at once by a disc of the mover; it is false on every occupied
\* cell.  Stated of every new board; the second conjunct says that the board
\* of any other state is the board of the state before it
C1_ValidMoveIffRule ==
    /\ [](BoardIsNew =>
            \A colour \in Color, coord \in (-1 .. SIZE) \X (-1 .. SIZE) :
                /\ valid_move(board, colour, coord) = LegalByRule(board, colour, coord)
                /\ (OnBoard(coord) /\ At(board, coord) # None)
                       => ~valid_move(board, colour, coord))
    /\ [][~BoardIsNew' => board' = board]_vars

\* a board with a legal move for the player to move, with a cell that has
\* the mover's disc right next to it and is not legal, and with an opponent
\* disc that only a wrapped index makes adjacent to an illegal top-row cell
C1_Witness ==
    /\ \E coord \in Coords : valid_move(board, turn, coord)
    /\ \E coord \in Coords, d \in Dirs8 :
          /\ At(board, coord) = None
          /\ OnBoard(Ahead(coord, d, 1))
          /\ At(board, Ahead(coord, d, 1)) = turn
          /\ ~valid_move(board, turn, coord)
    /\ \E c \in Idx :
          /\ find_adjacent(board, <<0, c>>, turn)
          /\ At(board, <<0, c>>) = None
          /\ ~valid_move(board, turn, <<0, c>>)

----------------------------------------------------------------------------
(* Applying a move *)

\* the cells the rule turns over: the opponent discs of every bracketed run
Turned(b, colour, coord) ==
    UNION { { Ahead(coord, d, k) : k \in 1 .. n } :
              <<d, n>> \in { x \in Dirs8 \X (1 .. (SIZE - 2)) :
                                Bracketed(b, colour, coord, x[1], x[2]) } }

\* the board the rule asks for: coord and the turned cells hold colour,
\* every other cell is as before
BoardByRule(b, colour, coord) ==
    LET turned == Turned(b, colour, coord)
    IN  [r \in Idx |-> [c \in Idx |->
            IF <<r, c>> = coord \/ <<r, c>> \in turned THEN colour ELSE b[r][c]]]

Reversed(s) == [i \in 1 .. Len(s) |-> s[Len(s) + 1 - i]]
Rotated(s, k) == [i \in 1 .. Len(s) |-> s[((i + k - 1) % Len(s)) + 1]]

\* orders of processing the 8 directions: the source's order rotated by each
\* offset, and each of these reversed, so that every two directions occur in
\* both orders
Orders ==
    { Rotated(directions, k) : k \in 0 .. 7 }
        \cup { Reversed(Rotated(directions, k)) : k \in 0 .. 7 }

\* C2: a move applied by play_game leaves coord and every bracketed opponent
\* disc of all 8 directions in the mover's colour and every other cell,
\* bookends included, unchanged, whatever the order of the directions
C2_MoveFlipsAllBracketed ==
    [][ (board' # board \/ applied' # applied) =>
            /\ LegalByRule(board, turn, last'.move)
            /\ last'.color = turn
            /\ board' = BoardByRule(board, turn, last'.move)
            /\ \A dirs \in Orders :
                  PlaceAndFlipIn(board, turn, last'.move, dirs).board = board'
      ]_vars

\* a move has just turned discs in two or more directions at once, and
\* two or more discs in one of them
C2_Witness ==
    /\ ev = "apply"
    /\ Cardinality({ d \in Dirs8 :
           FlippableDir(last.before, last.color, last.move, d) }) >= 2
    /\ \E d \in Dirs8, n \in 2 .. (SIZE - 2) :
           Bracketed(last.before, last.color, last.move, d, n)
    /\ board = BoardByRule(last.before, last.color, last.move)

----------------------------------------------------------------------------
(* The opening position *)

AllPairs == (-1 .. SIZE) \X (-1 .. SIZE)

\* C3 as claimed: on the initial board Black's legal moves are exactly
\* d3, c4, f5 and e6
C3_Claimed ==
    ev = "start" =>
        { coord \in AllPairs : valid_move(board, BLACK, coord) }
            = { <<2, 3>>, <<3, 2>>, <<4, 5>>, <<5, 4>> }

\* C3 amended: on the initial board Black's legal moves are exactly
\* e3, f4, c5 and d6, that is (row, col) = (2,4), (3,5), (4,2), (5,3)
C3_InitialMoves ==
    ev = "start" =>
        /\ turn = BLACK
        /\ { coord \in AllPairs : valid_move(board, BLACK, coord) }
              = { <<2, 4>>, <<3, 5>>, <<4, 2>>, <<5, 3>> }

\* Black has opened with e3 on the initial board
C3_Witness ==
    /\ applied = 1
    /\ last.before = InitialBoard
    /\ last.color = BLACK
    /\ last.move = <<2, 4>>

----------------------------------------------------------------------------
(* Disc counts *)

Discs(b) == CountOf(b, BLACK) + CountOf(b, WHITE)

\* C4: the discs on the board number 4 plus the moves applied so far, and
\* never more than 64
C4_DiscCount ==
    /\ Discs(board) = 4 + applied
    /\ Discs(board) <= SIZE * SIZE

\* nine or more moves applied, then a turn skipped
C4_Witness ==
    /\ applied >= 9
    /\ ev = "skip"

\* C5: an applied move never decreases the mover's disc count and never
\* increases the opponent's
C5_CountsMonotone ==
    ev = "apply" =>
        /\ CountOf(board, last.color) >= CountOf(last.before, last.color)
        /\ CountOf(board, Opposite(last.color))
               <= CountOf(last.before, Opposite(last.color))

\* a move has just been applied that turned three or more discs
C5_Witness ==
    /\ ev = "apply"
    /\ CountOf(board, last.color) >= CountOf(last.before, last.color) + 4
    /\ CountOf(board, Opposite(last.color))
           <= CountOf(last.before, Opposite(last.color)) - 3

----------------------------------------------------------------------------
(* The turn controller *)

Rejected == {"reject_parse", "reject_invalid"}

\* C6: a rejected input, unparsable or illegal, leaves every cell and the
\* player to move unchanged, and that player is the one prompted next
C6_RejectedInputChangesNothing ==
    [][ (pc = "prompt" /\ input' # input /\ applied' = applied) =>
            /\ ev' \in Rejected
            /\ board' = board
            /\ turn' = turn
            /\ pc' = "top"
            /\ ~no_valid_moves(board', turn')
      ]_vars

\* an illegal move has just been rejected in a game under way
C6_Witness ==
    /\ ev = "reject_invalid"
    /\ pc = "top"
    /\ applied >= 2
    /\ ~no_valid_moves(board, turn)

\* C7: when the player to move has no legal move the turn is skipped: the
\* turn passes to the opponent, skip grows by exactly 1, the board is
\* unchanged and no line of the input is consumed
C7_SkipConsumesNoInput ==
    [][ (pc = "top" /\ no_valid_moves(board, turn)) =>
            /\ ev' = "skip"
            /\ turn' = Opposite(turn)
            /\ skip' = skip + 1
            /\ board' = board
            /\ input' = input
      ]_vars

\* a turn has just been skipped with lines left to read, and the game goes on
\* with the opponent
C7_Witness ==
    /\ ev = "skip"
    /\ pc = "top"
    /\ skip = 1
    /\ input > 0
    /\ ~no_valid_moves(board, turn)

\* C8: a game ended by two consecutive skips reports one result, once, from
\* the disc counts of the final board: Black wins iff black > white, White
\* wins iff white > black, a tie iff the counts are equal
C8_WinnerByCount ==
    LET black_count == CountOf(board, BLACK)
        white_count == CountOf(board, WHITE)
    IN  /\ pc = "over" =>
              /\ skip = 2
              /\ Len(out) = 1
              /\ (out[1] = "Black wins!") = (black_count > white_count)
              /\ (out[1] = "White wins!") = (white_count > black_count)
              /\ (out[1] = "It's a tie!") = (black_count = white_count)
        /\ pc # "over" => out = <<>>

\* a game between two players who both hold discs has ended in a tie
C8_Witness ==
    /\ pc = "over"
    /\ out = <<"It's a tie!">>
    /\ CountOf(board, BLACK) > 0

\* C9: when the input is exhausted at the prompt the loop ends as a handled
\* exit: no error escapes play_game, no winner is reported and the board
\* keeps its value
C9_ExhaustionIsHandled ==
    [][ (pc = "prompt" /\ input = 0 /\ ev' = "exhausted") =>
            /\ pc' = "exit"
            /\ out' = out
            /\ board' = board
      ]_vars

\* C10: the game starts with Black to move and skip = 0; an applied move
\* passes the turn to the opponent with skip = 0; the player to move changes
\* only by an applied move or a skip
C10_TurnOrder ==
    /\ (turn = BLACK /\ skip = 0)
    /\ [][ /\ ev' = "apply" => (turn' = Opposite(turn) /\ skip' = 0)
           /\ turn' # turn => ev' \in {"apply", "skip"}
           /\ ev' \in Rejected => turn' = turn
         ]_vars

\* a move has just been applied in an iteration that began with skip = 1,
\* that is right after the opponent's turn was skipped
C10_Witness ==
    /\ ev = "apply"
    /\ skip0 = 1
    /\ skip = 0
    /\ turn = Opposite(last.color)

----------------------------------------------------------------------------
(* The end of the game *)

Running == {"top", "prompt"}

\* the part of C11 on full boards: nobody has a valid move on a full board,
\* and from a full board the loop does nothing but skip, the second skip
\* printing the winner
FullBoardIsSkippedTwice ==
    /\ [](is_board_full(board) =>
            /\ no_valid_moves(board, BLACK)
            /\ no_valid_moves(board, WHITE)
            /\ pc \in {"top", "over"})
    /\ [][ (is_board_full(board) /\ pc = "top") =>
             /\ ev' = "skip"
             /\ board' = board
             /\ IF skip = 0
                THEN pc' = "top" /\ skip' = 1 /\ out' = out
                ELSE /\ pc' = "over"
                     /\ skip' = 2
                     /\ out' = <<count_tokens_and_determine_winner(board)>> ]_vars

\* C11 as claimed: on a full board neither player has a valid move and two
\* consecutive skips end the game with the winner message; a step that ends
\* the loop while lines remain in the input is the second of two skips
C11_Claimed ==
    /\ FullBoardIsSkippedTwice
    /\ [][ (pc \in Running /\ pc' \notin Running /\ input > 0) =>
             (ev' = "skip" /\ skip' = 2 /\ pc' = "over") ]_vars

\* C11 (amended): on a full board neither player has a valid move and two
\* consecutive skips end the game with the winner message; a step that ends
\* the loop is the second of two skips, unless the input is exhausted or the
\* prompt is interrupted (KeyboardInterrupt, lines 288-290); no step looks at
\* is_board_full
C11_TwoSkipsEndTheGame ==
    /\ FullBoardIsSkippedTwice
    /\ [][ (pc \in Running /\ pc' \notin Running) =>
             \/ ev' = "skip" /\ skip' = 2 /\ pc' = "over"
             \/ ev' = "exhausted" /\ pc = "prompt" /\ input = 0
             \/ ev' = "interrupted" /\ pc = "prompt" ]_vars

\* a game played to the full board (60 moves) and ended by two skips while
\* lines remain in the input
C11_Witness ==
    /\ pc = "over"
    /\ is_board_full(board)
    /\ applied = 60
    /\ skip = 2
    /\ input > 0
    /\ Len(out) = 1

----------------------------------------------------------------------------
(* The worked example of the module docstring *)

G6 == <<5, 6>>

\* c6, d6, e6, f5, f6
ExampleFlipped == { <<5, 2>>, <<5, 3>>, <<5, 4>>, <<4, 5>>, <<5, 5>> }

Changed(b1, b2) == { p \in Coords : At(b1, p) # At(b2, p) }

\* C12: on the board of the worked example g6 is a valid move for black,
\* and after black's g6 exactly c6, d6, e6, f5, f6 and g6 have changed, all
\* of them to black
C12_WorkedExample ==
    /\ (board = ExampleBoard /\ ev = "start") =>
            (turn = BLACK /\ valid_move(board, turn, G6))
    /\ (ev = "apply" /\ last.before = ExampleBoard /\ last.move = G6) =>
            /\ last.color = BLACK
            /\ Changed(last.before, board) = ExampleFlipped \cup {G6}
            /\ \A p \in ExampleFlipped \cup {G6} : At(board, p) = BLACK

C12_Witness ==
    /\ ev = "apply"
    /\ last.before = ExampleBoard
    /\ last.move = G6
    /\ last.color = BLACK
    /\ \A p \in ExampleFlipped : At(last.before, p) = WHITE /\ At(board, p) = BLACK
    /\ At(board, G6) = BLACK

----------------------------------------------------------------------------
(* parse_coordinate *)

Alphabet == {"a", "h", "i", "A", "H", "I", "0", "1", "8", "9", " ", "\n"}
Strings == UNION { [1 .. n -> Alphabet] : n \in 0 .. MaxStrLen }

ColumnLetters == <<"a", "b", "c", "d", "e", "f", "g", "h">>
ColumnCapitals == <<"A", "B", "C", "D", "E", "F", "G", "H">>
RowDigits == <<"1", "2", "3", "4", "5", "6", "7", "8">>

WellFormed(s) ==
    /\ Len(s) = 2
    /\ InSeq(ColumnLetters, s[1]) \/ InSeq(ColumnCapitals, s[1])
    /\ InSeq(RowDigits, s[2])

\* (digit - 1, letter index) of a well-formed string
CoordinateOf(s) ==
    << IndexOf(RowDigits, s[2]) - 1,
       IF InSeq(ColumnLetters, s[1]) THEN IndexOf(ColumnLetters, s[1]) - 1
       ELSE IndexOf(ColumnCapitals, s[1]) - 1 >>

\* C13: parse_coordinate succeeds exactly on a column letter a-h, in either
\* case, followed by a row digit 1-8, and returns (digit - 1, letter index);
\* "H8" and "h8" give (7, 7); every other string raises CoordinateParseError.
\* parse_coordinate reads nothing of the game: it is evaluated on every
\* string of up to MaxStrLen characters and on the lines of the input before
\* the first line is read.
C13_ParseCoordinate ==
    ev = "start" =>
        /\ \A s \in Strings \cup Lines :
              LET p == parse_coordinate(s)
              IN  /\ p.ok = WellFormed(s)
                  /\ p.ok => p.move = CoordinateOf(s)
        /\ parse_coordinate(<<"H", "8">>) = parse_coordinate(<<"h", "8">>)
        /\ parse_coordinate(<<"h", "8">>).ok
        /\ parse_coordinate(<<"h", "8">>).move = <<7, 7>>
        /\ \A s \in { <<"i", "1">>, <<"a", "9">>, <<"a">>, <<"a", "b", "c">> } :
              ~parse_coordinate(s).ok

\* a move applied from a line typed with a capital letter
C13_Witness ==
    /\ ev = "apply"
    /\ \E str \in Lines :
          /\ Len(str) > 0
          /\ InSeq(ColumnCapitals, str[1])
          /\ parse_coordinate(Rstrip(str)).ok
          /\ parse_coordinate(Rstrip(str)).move = last.move

----------------------------------------------------------------------------
(* The counter of consecutive skips *)

\* C15 as claimed: skip changes only by a skip (plus 1) and by an applied
\* move (reset to 0); after a rejected input skip has the value it had when
\* the prompted player's turn began (skip0, the value at the top of the
\* iteration that requested the input)
C15_Claimed ==
    [][ /\ (skip' # skip) =>
              \/ ev' = "skip" /\ skip' = skip + 1
              \/ ev' = "apply" /\ skip' = 0
        /\ (ev' \in Rejected) => (skip' = skip0') ]_vars

\* C15 (amended): skip changes only by a skip (plus 1) and by the reset of
\* line 277, which runs as soon as the player to move has a valid move,
\* before the line is read; so skip is 0 when a line is read, and a rejected
\* input and an applied move both leave it at 0
C15_SkipCounter ==
    [][ /\ (skip' # skip) =>
              \/ ev' = "skip" /\ skip' = skip + 1
              \/ ev' = "prompt" /\ skip' = 0
        /\ (ev' = "prompt") => (skip' = 0 /\ skip0' = skip)
        /\ (ev' \in Rejected \cup {"apply"}) => (skip = 0 /\ skip' = 0) ]_vars

\* an input rejected in the turn that follows a skip: the iteration began
\* with skip = 1 and the rejected input leaves skip = 0
C15_Witness ==
    /\ ev \in Rejected
    /\ skip0 = 1
    /\ skip = 0
    /\ pc = "top"

\* C16: skip is 0, 1 or 2, and 2 exactly when the game is over; when the
\* game is over neither player has a valid move on the board; the step that
\* ends the game is a skip that follows a skip, and no skip changes the
\* board, so the final board is the board of the first of the two skips
C16_TwoSkips ==
    /\ [](/\ skip \in {0, 1, 2}
          /\ (skip = 2) <=> (pc = "over")
          /\ (pc = "over") =>
                (no_valid_moves(board, BLACK) /\ no_valid_moves(board, WHITE)))
    /\ [][ /\ (ev' = "skip") => (board' = board /\ pc = "top")
           /\ (pc # "over" /\ pc' = "over") =>
                 /\ ev = "skip"
                 /\ ev' = "skip"
                 /\ skip = 1
                 /\ skip' = 2
                 /\ no_valid_moves(board, turn)
                 /\ no_valid_moves(board, Opposite(turn)) ]_vars

\* a game ended by two skips on a board that still has an empty cell
C16_Witness ==
    /\ pc = "over"
    /\ skip = 2
    /\ skip0 = 1
    /\ ~is_board_full(board)
    /\ ev = "skip"

----------------------------------------------------------------------------
(* Termination *)

\* every prompt is answered, sooner or later, by a move that is applied
PlayerMoves == [](pc = "prompt" => <>(ev = "apply"))

\* C17: on an input that never ends, if every prompted player eventually
\* supplies a valid move, the game reaches the end by two skips, where the
\* winner is printed, and stays there; no more than 60 moves are applied
C17_GameEnds ==
    /\ PlayerMoves => <>[](pc = "over" /\ skip = 2 /\ Len(out) = 1)
    /\ [](applied <= 60)

\* the end of a game of 60 moves
C17_Witness ==
    /\ pc = "over"
    /\ applied = 60
    /\ skip = 2
    /\ Len(out) = 1

----------------------------------------------------------------------------
(* The walks of flip_line *)

\* C18: in every move that play_game applies, each walk of flip_line reads
\* and writes the board only at indexes 0..7 (no index past an edge, no
\* negative index), overwrites only cells that hold the opponent's colour
\* (all the cells it reads but the last) and ends at the first cell of the
\* mover's colour; no IndexError is raised
C18_FlipLineStaysOnBoard ==
    [][ (ev' = "apply") =>
          LET m == last'.move
              walks == do_flip_walks([board EXCEPT ![m[1]][m[2]] = turn],
                                     turn, m, directions, 1)
          IN  /\ pc' # "raised"
              /\ Len(walks) >= 1
              /\ \A i \in 1 .. Len(walks) :
                    LET w == walks[i]
                        n == Len(w.reads)
                    IN  /\ n >= 2
                        /\ \A k \in 1 .. n : OnBoard(w.reads[k])
                        /\ \A k \in 1 .. (n - 1) :
                              At(w.before, w.reads[k]) = Opposite(turn)
                        /\ At(w.before, w.reads[n]) = turn ]_vars

\* a move at b3 whose walk up the column ends on the disc at the edge, b1
C18_Witness ==
    /\ ev = "apply"
    /\ pc = "top"
    /\ last.move = <<2, 1>>
    /\ At(last.before, <<1, 1>>) = Opposite(last.color)
    /\ At(last.before, <<0, 1>>) = last.color
    /\ At(board, <<1, 1>>) = last.color

----------------------------------------------------------------------------
(* find_adjacent *)

\* one of the neighbours of move that lie on the board holds the opponent's
\* colour
AdjacentOpponent(b, move, colour) ==
    \E d \in Dirs8 :
        /\ OnBoard(Ahead(move, d, 1))
        /\ At(b, Ahead(move, d, 1)) = Opposite(colour)

\* C19: find_adjacent is true iff a neighbour on the board holds the
\* opponent's colour (a neighbour position off the board, row or column -1
\* or 8, never makes it true), for every cell of the board and both colours
C19_FindAdjacent ==
    \A colour \in Color, move \in Coords :
        find_adjacent(board, move, colour) = AdjacentOpponent(board, move, colour)

====
